---- MODULE Spec2Model ----
(***************************************************************************)
(* The notes service of src/app.py: five Flask handlers over one SQLite    *)
(* table `note`.  The server runs each request on a thread of its own, so  *)
(* handlers overlap.  A handler that talks to the database more than once  *)
(* can be preempted between two statements: put loads the row, commits its *)
(* UPDATE and loads the row again for the response; delete loads the row   *)
(* and commits its DELETE.  Each handler is one action when it runs whole, *)
(* and one action per stretch between two preemptions otherwise.  Every    *)
(* database statement is atomic.  index, note_by_note_id and register      *)
(* issue one statement and are never split.                                *)
(***************************************************************************)
EXTENDS Integers, Sequences, FiniteSets, Bags, TLC

(* ------------------------------ bounds --------------------------------- *)

\* Largest rowid the table assigns: an insert that would take a larger one
\* is left out.
MaxId == 2

\* Largest value of the database clock, which starts at 0 and is read in
\* ticks of one second (CURRENT_TIMESTAMP).
MaxTime == 1

\* How many requests may be preempted, between two of their database
\* statements, at once (while one more request runs).
MaxPreempted == 1

(* ------------------------------ values --------------------------------- *)

\* Python's None / JSON null / SQL NULL.
None == "<None>"

\* The ids a request path can name: every rowid the table can assign.
Ids == 1..MaxId

\* request.json, any JSON value: `fields` holds the members of an object,
\* `items` the characters of a string or the elements of an array, `num`
\* a number (or 1 for true, 0 for false).
Json(type, fields, items, num) ==
  [type |-> type, fields |-> fields, items |-> items, num |-> num]

JsonNull == Json("null", <<>>, <<>>, 0)

JsonObject(f) == Json("object", f, <<>>, 0)

JsonNumber(n) == Json("number", <<>>, <<>>, n)

JsonTrue == Json("bool", <<>>, <<>>, 1)

JsonString(chars) == Json("string", <<>>, chars, 0)

JsonArray(elements) == Json("array", <<>>, elements, 0)

\* The bodies sent to POST /notes: null, the empty object, each field alone,
\* both fields, the number 5, true,
\* the string "title text" and the array ["title", "text"].
RegisterBodies ==
  {JsonNull,
   JsonObject(<<>>),
   JsonObject([k \in {"title"} |-> "T"]),
   JsonObject([k \in {"text"} |-> "X"]),
   JsonObject([title |-> "T", text |-> "X"]),
   JsonNumber(5),
   JsonTrue,
   JsonString(<<"t", "i", "t", "l", "e", " ", "t", "e", "x", "t">>),
   JsonArray(<<"title", "text">>)}

\* The bodies sent to PUT /notes/<note_id>: null, text alone, both fields.
PutBodies ==
  {JsonNull,
   JsonObject([k \in {"text"} |-> "X"]),
   JsonObject([title |-> "T", text |-> "Y"])}

\* Python truthiness of request.json: None, {}, 0, False, "" and [] are falsy.
Truthy(json) ==
  CASE json.type = "null" -> FALSE
    [] json.type = "object" -> DOMAIN json.fields # {}
    [] json.type \in {"number", "bool"} -> json.num # 0
    [] OTHER -> Len(json.items) > 0

\* The characters of a key.
KeyChars(key) ==
  IF key = "title" THEN <<"t", "i", "t", "l", "e">> ELSE <<"t", "e", "x", "t">>

\* str.__contains__: k occurs in s as a substring.
Substring(k, s) ==
  \E i \in 1..(Len(s) - Len(k) + 1) : SubSeq(s, i, i + Len(k) - 1) = k

\* `key in new_note` raises TypeError: a number or a bool is not iterable.
InRaises(json) == json.type \in {"number", "bool"}

\* `key in new_note`: a member of a dict, an element of a list, a substring
\* of a str.
Has(json, key) ==
  CASE json.type = "object" -> key \in DOMAIN json.fields
    [] json.type = "array" -> \E i \in 1..Len(json.items) : json.items[i] = key
    [] json.type = "string" -> Substring(KeyChars(key), json.items)
    [] OTHER -> FALSE

\* dict.get(key): the value, or None when the key is absent.
DictGet(json, key) ==
  IF key \in DOMAIN json.fields THEN json.fields[key] ELSE None

(* ------------------------------ state ---------------------------------- *)

VARIABLES
  table,     \* the rows of table `note`: [note_id, title, text, data]
  now,       \* the database clock when func.now() last read it
  inflight,  \* the bag of the preempted requests
  request,   \* the request whose handler took the last step
  response,  \* its response, or the pending mark while it is in flight
  live,      \* ids assigned by a committed create and not deleted since
  deleted,   \* ids a delete has removed and no create has assigned since
  origin     \* [note_id, title, text] of each create whose note no UPDATE
             \* and no DELETE has touched since

vars ==
  <<table, now, inflight, request, response, live, deleted, origin>>

(* ------------------------------ storage -------------------------------- *)

\* Note.query.get(note_id) finds a row.
Found(rows, note_id) == \E r \in rows : r.note_id = note_id

\* Note.query.get(note_id), when it finds one.
QueryGet(rows, note_id) == CHOOSE r \in rows : r.note_id = note_id

SetMax(S) == CHOOSE x \in S : \A y \in S : y <= x

\* INTEGER PRIMARY KEY without AUTOINCREMENT: the rowid SQLite assigns is
\* one more than the largest rowid in the table, 1 in an empty table.
NextRowid(rows) ==
  IF rows = {} THEN 1 ELSE SetMax({r.note_id : r \in rows}) + 1

\* Note.query.all(): the rows, in rowid order.
RECURSIVE QueryAll(_)
QueryAll(rows) ==
  IF rows = {} THEN <<>>
  ELSE LET last == CHOOSE r \in rows : \A s \in rows : s.note_id <= r.note_id
       IN  Append(QueryAll(rows \ {last}), last)

\* The dict every handler builds from a Note.
NoteDict(note) ==
  [note_id |-> note.note_id, title |-> note.title,
   text |-> note.text, data |-> note.data]

(* ------------------------------ requests and responses ----------------- *)

Response(status, kind, value) ==
  [status |-> status, body |-> [kind |-> kind, value |-> value]]

\* An exception no handler catches: Flask answers 500.
Fault(exception) == Response(500, "fault", exception)

\* No response yet: the handler has been preempted.
Pending == Response(0, "pending", "")

\* The route of a request and the id in its path (0 on a route without).
Request(method, path, note_id) ==
  [method |-> method, path |-> path, note_id |-> note_id]

\* A request in flight: its session holds the loaded note, with the columns
\* put has assigned a value other than the loaded one (the columns its
\* UPDATE will set).
Session(op, note_id, json, set_title, set_text) ==
  [op |-> op, note_id |-> note_id, json |-> json,
   set_title |-> set_title, set_text |-> set_text]

Add(bag, s) == bag (+) SetToBag({s})

Remove(bag, s) == bag (-) SetToBag({s})

(* ------------------------------ GET /notes/ ---------------------------- *)

index_response(rows) ==
  LET notes == QueryAll(rows)
  IN  Response(200, "notes", [i \in 1..Len(notes) |-> NoteDict(notes[i])])

index ==
  /\ request' = Request("GET", "/notes/", 0)
  /\ response' = index_response(table)
  /\ UNCHANGED <<table, now, inflight, live, deleted, origin>>

(* ------------------------------ GET /notes/<note_id> ------------------- *)

\* A missing row makes `note` None, and note.note_id raises AttributeError,
\* which nothing catches.
note_by_note_id_response(rows, note_id) ==
  IF Found(rows, note_id)
  THEN Response(200, "note", NoteDict(QueryGet(rows, note_id)))
  ELSE Fault("AttributeError")

note_by_note_id(note_id) ==
  /\ request' = Request("GET", "/notes/<note_id>", note_id)
  /\ response' = note_by_note_id_response(table, note_id)
  /\ UNCHANGED <<table, now, inflight, live, deleted, origin>>

(* ------------------------------ POST /notes ---------------------------- *)

\* What the handler does with a body.  The rejection test is evaluated left
\* to right: a falsy body is rejected; `in` on a number or a bool raises
\* TypeError; a body without "text" or without "title" is rejected.  A body
\* that passes and is no dict raises TypeError at new_note["title"], which
\* the except clause (IntegrityError only) lets through.
register_outcome(new_note) ==
  IF ~Truthy(new_note) THEN "reject"
  ELSE IF InRaises(new_note) THEN "fault"
  ELSE IF ~Has(new_note, "text") THEN "reject"
  ELSE IF ~Has(new_note, "title") THEN "reject"
  ELSE IF new_note.type # "object" THEN "fault"
  ELSE "commit"

\* register_note with the two fields stored the wrong way round.
register_note_swapped(rows, new_note, t) ==
  [note_id |-> NextRowid(rows), title |-> new_note.fields["text"],
   text |-> new_note.fields["title"], data |-> t]

\* Note(title=..., text=...), add, commit: data defaults to func.now().
register_note(rows, new_note, t) ==
  [note_id |-> NextRowid(rows), title |-> new_note.fields["title"],
   text |-> new_note.fields["text"], data |-> t]

register_rows(rows, new_note, t) ==
  rows \cup {register_note(rows, new_note, t)}

\* The committed path falls off the end of the view: it returns None, which
\* Flask turns into a TypeError and so into status 500, after the commit.
\* The IntegrityError branch has no case: the table's one constraint is the
\* primary key, which the insert never supplies.
register_response(new_note) ==
  IF register_outcome(new_note) = "reject"
  THEN Response(400, "error", "invalid note ID request")
  ELSE Fault("TypeError")

\* One statement, INSERT and COMMIT.  The insert stores the clock as it
\* reads it, CURRENT_TIMESTAMP: the second of the previous insert, or any
\* later second.
register(new_note) ==
  /\ request' = Request("POST", "/notes", 0)
  /\ response' = register_response(new_note)
  /\ UNCHANGED inflight
  /\ IF register_outcome(new_note) # "commit"
     THEN UNCHANGED <<table, now, live, deleted, origin>>
     ELSE /\ NextRowid(table) <= MaxId
          /\ \E t \in now..MaxTime :
               /\ now' = t
               /\ table' = register_rows(table, new_note, t)
          /\ live' = live \cup {NextRowid(table)}
          /\ deleted' = deleted \ {NextRowid(table)}
          /\ origin' =
               {o \in origin : o.note_id # NextRowid(table)} \cup
               {[note_id |-> NextRowid(table),
                 title |-> new_note.fields["title"],
                 text |-> new_note.fields["text"]]}

(* ------------------------------ PUT /notes/<note_id> ------------------- *)

\* The assignments run through: the row exists and the body is a dict.  A
\* missing row, or a body without .get, raises AttributeError before any
\* assignment.
put_ok(rows, note_id, req_json) ==
  Found(rows, note_id) /\ req_json.type = "object"

\* The session after the two assignments: a column is dirty when the value
\* assigned differs from the value loaded.
put_session(note, req_json) ==
  Session("PUT", note.note_id, req_json,
          DictGet(req_json, "title") # note.title,
          DictGet(req_json, "text") # note.text)

\* put_note that also refreshes the timestamp, as an onupdate default would.
put_note_touch(note, s) ==
  [note EXCEPT
     !.text = IF s.set_text THEN DictGet(s.json, "text") ELSE note.text,
     !.title = IF s.set_title THEN DictGet(s.json, "title") ELSE note.title,
     !.data = note.data + 1]

\* UPDATE note SET <dirty columns> WHERE note_id = ...
put_note(note, s) ==
  [note EXCEPT
     !.text = IF s.set_text THEN DictGet(s.json, "text") ELSE note.text,
     !.title = IF s.set_title THEN DictGet(s.json, "title") ELSE note.title]

\* The UPDATE matches no row: StaleDataError, caught by the handler.
put_stale(rows, s) ==
  (s.set_title \/ s.set_text) /\ ~Found(rows, s.note_id)

\* put_rows as an upsert: a missing id gets a new row.
put_rows_upsert(rows, s) ==
  IF Found(rows, s.note_id)
  THEN (rows \ {QueryGet(rows, s.note_id)}) \cup
       {put_note(QueryGet(rows, s.note_id), s)}
  ELSE rows \cup {[note_id |-> s.note_id, title |-> DictGet(s.json, "title"),
                   text |-> DictGet(s.json, "text"), data |-> now]}

put_rows(rows, s) ==
  IF Found(rows, s.note_id)
  THEN (rows \ {QueryGet(rows, s.note_id)}) \cup
       {put_note(QueryGet(rows, s.note_id), s)}
  ELSE rows

\* The response reads the note again (the commit expired it): the row as it
\* is now, or ObjectDeletedError, caught by the handler.
put_response(rows, note_id) ==
  IF Found(rows, note_id)
  THEN Response(204, "note", NoteDict(QueryGet(rows, note_id)))
  ELSE Response(404, "message", "error")

\* The notes no UPDATE has touched since their create.
put_origin(created, s) ==
  IF s.set_title \/ s.set_text
  THEN {o \in created : o.note_id # s.note_id}
  ELSE created

\* The handler, run whole.
put(note_id, req_json) ==
  /\ request' = Request("PUT", "/notes/<note_id>", note_id)
  /\ UNCHANGED <<now, inflight, live, deleted>>
  /\ IF ~put_ok(table, note_id, req_json)
     THEN /\ response' = Response(404, "message", "error")
          /\ UNCHANGED <<table, origin>>
     ELSE LET s == put_session(QueryGet(table, note_id), req_json)
          IN  /\ table' = put_rows(table, s)
              /\ origin' = put_origin(origin, s)
              /\ response' = put_response(table', note_id)

\* Lines 145-149, preempted before the commit: load the note and assign.
put_query(note_id, req_json) ==
  /\ put_ok(table, note_id, req_json)
  /\ BagCardinality(inflight) < MaxPreempted
  /\ request' = Request("PUT", "/notes/<note_id>", note_id)
  /\ response' = Pending
  /\ inflight' = Add(inflight, put_session(QueryGet(table, note_id), req_json))
  /\ UNCHANGED <<table, now, live, deleted, origin>>

\* Lines 151-157 resumed: flush and commit, then either build the response
\* or be preempted before the note is loaded again.
put_commit(s, preempt) ==
  /\ s.op = "PUT"
  /\ request' = Request("PUT", "/notes/<note_id>", s.note_id)
  /\ UNCHANGED <<now, live, deleted>>
  /\ IF put_stale(table, s)
     THEN /\ response' = Response(404, "message", "error")
          /\ inflight' = Remove(inflight, s)
          /\ UNCHANGED <<table, origin>>
     ELSE /\ table' = put_rows(table, s)
          /\ origin' = put_origin(origin, s)
          /\ IF preempt
             THEN /\ response' = Pending
                  /\ inflight' =
                       Add(Remove(inflight, s),
                           Session("PUT_RETURN", s.note_id, JsonNull, FALSE, FALSE))
             ELSE /\ response' = put_response(table', s.note_id)
                  /\ inflight' = Remove(inflight, s)

\* Lines 153-157 resumed: build the response.
put_return(s) ==
  /\ s.op = "PUT_RETURN"
  /\ request' = Request("PUT", "/notes/<note_id>", s.note_id)
  /\ response' = put_response(table, s.note_id)
  /\ inflight' = Remove(inflight, s)
  /\ UNCHANGED <<table, now, live, deleted, origin>>

(* ------------------------------ DELETE /notes/<note_id> ---------------- *)

\* delete_rows whose removal is never committed.
delete_rows_uncommitted(rows, note_id) == rows

\* DELETE FROM note WHERE note_id = ...; a DELETE that matches no row only
\* warns.
delete_rows(rows, note_id) == {r \in rows : r.note_id # note_id}

\* db.session.delete(None) raises, and the handler answers 404.
delete_missing_response(note_id) == Response(404, "message", "error")

\* The confirmation text names the id; its value here is that id.
delete_response(note_id) == Response(200, "text", note_id)

\* The handler, run whole.
delete(note_id) ==
  /\ request' = Request("DELETE", "/notes/<note_id>", note_id)
  /\ UNCHANGED <<now, inflight>>
  /\ IF ~Found(table, note_id)
     THEN /\ response' = delete_missing_response(note_id)
          /\ UNCHANGED <<table, live, deleted, origin>>
     ELSE /\ response' = delete_response(note_id)
          /\ table' = delete_rows(table, note_id)
          /\ live' = live \ {note_id}
          /\ deleted' = deleted \cup {note_id}
          /\ origin' = {o \in origin : o.note_id # note_id}

\* Line 171, preempted before the delete: load the note.
delete_query(note_id) ==
  /\ Found(table, note_id)
  /\ BagCardinality(inflight) < MaxPreempted
  /\ request' = Request("DELETE", "/notes/<note_id>", note_id)
  /\ response' = Pending
  /\ inflight' = Add(inflight, Session("DELETE", note_id, JsonNull, FALSE, FALSE))
  /\ UNCHANGED <<table, now, live, deleted, origin>>

\* Lines 172-174 resumed: delete, commit and answer.
delete_commit(s) ==
  /\ s.op = "DELETE"
  /\ request' = Request("DELETE", "/notes/<note_id>", s.note_id)
  /\ response' = delete_response(s.note_id)
  /\ inflight' = Remove(inflight, s)
  /\ table' = delete_rows(table, s.note_id)
  /\ IF Found(table, s.note_id)
     THEN /\ live' = live \ {s.note_id}
          /\ deleted' = deleted \cup {s.note_id}
          /\ origin' = {o \in origin : o.note_id # s.note_id}
     ELSE UNCHANGED <<live, deleted, origin>>
  /\ UNCHANGED now

(* ------------------------------ specification -------------------------- *)

\* After db.create_all(): an empty table, and no request handled yet.
Init ==
  /\ table = {}
  /\ now = 0
  /\ inflight = EmptyBag
  /\ request = Request("NONE", "", 0)
  /\ response = Response(0, "none", "")
  /\ live = {}
  /\ deleted = {}
  /\ origin = {}

Next ==
  \/ index
  \/ \E note_id \in Ids : note_by_note_id(note_id)
  \/ \E new_note \in RegisterBodies : register(new_note)
  \/ \E note_id \in Ids : \E req_json \in PutBodies : put(note_id, req_json)
  \/ \E note_id \in Ids : \E req_json \in PutBodies : put_query(note_id, req_json)
  \/ \E s \in BagToSet(inflight) : \E preempt \in BOOLEAN : put_commit(s, preempt)
  \/ \E s \in BagToSet(inflight) : put_return(s)
  \/ \E note_id \in Ids : delete(note_id)
  \/ \E note_id \in Ids : delete_query(note_id)
  \/ \E s \in BagToSet(inflight) : delete_commit(s)

Spec == Init /\ [][Next]_vars

(* ------------------------------ properties ----------------------------- *)

\* C1: create-then-get.  Every note that a create committed, and that no
\* UPDATE and no DELETE has touched since, is answered by
\* GET /notes/<note_id> with status 200 and a record holding the title and
\* the text of the create body, the assigned note_id and a timestamp the
\* server set; and a GET that has just been handled for such a note got
\* exactly that answer.
CreateThenGet ==
  \A o \in origin :
    LET r == note_by_note_id_response(table, o.note_id)
    IN  /\ r.status = 200
        /\ r.body.kind = "note"
        /\ r.body.value.title = o.title
        /\ r.body.value.text = o.text
        /\ r.body.value.note_id = o.note_id
        /\ r.body.value.data \in 0..now
        /\ (/\ request.method = "GET"
            /\ request.path = "/notes/<note_id>"
            /\ request.note_id = o.note_id) => response = r

\* A GET has returned a note created with title "T" and text "X", after a
\* note was deleted.
CreateThenGetWitness ==
  /\ request.method = "GET"
  /\ request.path = "/notes/<note_id>"
  /\ response.status = 200
  /\ \E o \in origin :
       /\ o.note_id = request.note_id
       /\ o.title = "T" /\ o.text = "X"
       /\ response.body.value.title = "T"
       /\ response.body.value.text = "X"
  /\ deleted # {}

\* C2: the list holds exactly the notes created and not deleted.  GET /notes/
\* answers 200 with one record per id in `live`: as many records as live ids,
\* the ids of the records are the live ids, and the list is empty when no
\* note is live; a list request just handled got exactly that answer.
ListReflectsLive ==
  LET r == index_response(table)
  IN  /\ r.status = 200
      /\ r.body.kind = "notes"
      /\ Len(r.body.value) = Cardinality(live)
      /\ {r.body.value[i].note_id : i \in 1..Len(r.body.value)} = live
      /\ (live = {} => r.body.value = <<>>)
      /\ (request.path = "/notes/" => response = r)

\* Two notes were created, one was deleted, and the list returned one record.
ListReflectsLiveWitness ==
  /\ request.path = "/notes/"
  /\ response.status = 200
  /\ Len(response.body.value) = 1
  /\ Cardinality(live) = 1
  /\ Cardinality(deleted) = 1

\* C3: a POST /notes whose body is a JSON object holding both title and text
\* inserts exactly one record and is answered with status 201 and the
\* created record.
CreateReturns201 ==
  [][\A new_note \in RegisterBodies :
       (/\ register(new_note)
        /\ new_note.type = "object"
        /\ {"title", "text"} \subseteq DOMAIN new_note.fields)
         => /\ Cardinality(table') = Cardinality(table) + 1
            /\ response'.status = 201
            /\ response'.body.kind = "note"]_vars

\* C4: a POST /notes whose body is empty, or lacks the title field, or lacks
\* the text field (a body that is no JSON object has neither field) is
\* answered with status 400 and {"error": "invalid note ID request"}, and
\* the stored notes are the same before and after.
CreateValidation ==
  [][\A new_note \in RegisterBodies :
       (/\ register(new_note)
        /\ \/ new_note.type # "object"
           \/ ~({"title", "text"} \subseteq DOMAIN new_note.fields))
         => /\ response' = Response(400, "error", "invalid note ID request")
            /\ table' = table]_vars

\* C5: GET /notes/<note_id> for an id that matches no stored note raises no
\* unhandled fault and is answered with status 404.
GetMissingIs404 ==
  [][(/\ request'.method = "GET"
      /\ request'.path = "/notes/<note_id>"
      /\ ~Found(table, request'.note_id))
       => /\ response'.status = 404
          /\ response'.body.kind # "fault"]_vars

\* C6: replace is a full overwrite.  When a PUT /notes/<note_id> with a JSON
\* object body writes to a stored note (run whole, or at its commit), the
\* note then holds the title and the text of the body, None for a field the
\* body omits.
ReplaceOverwrites ==
  [][\A note_id \in Ids : \A req_json \in PutBodies :
       (/\ req_json.type = "object"
        /\ Found(table, note_id)
        /\ \/ put(note_id, req_json)
           \/ \E s \in BagToSet(inflight) : \E preempt \in BOOLEAN :
                /\ s.note_id = note_id
                /\ s.json = req_json
                /\ put_commit(s, preempt))
         => /\ Found(table', note_id)
            /\ QueryGet(table', note_id).title = DictGet(req_json, "title")
            /\ QueryGet(table', note_id).text = DictGet(req_json, "text")]_vars

\* C7: delete twice.  A DELETE answered while its id is stored is answered
\* with status 200 and a confirmation naming the id, and the note is gone; a
\* DELETE answered while its id is deleted and not assigned again is
\* answered with status 404 and leaves the stored notes as they are.
DeleteTwice ==
  [][(request'.method = "DELETE" /\ response' # Pending)
       => /\ Found(table, request'.note_id)
               => /\ response' = Response(200, "text", request'.note_id)
                  /\ table' = {r \in table : r.note_id # request'.note_id}
          /\ request'.note_id \in deleted
               => /\ response' = Response(404, "message", "error")
                  /\ table' = table]_vars

\* C8: note ids are unique and never reused.  No two stored notes share a
\* note_id, and no step stores a note under an id that a delete has removed.
IdsNeverReused ==
  [][/\ \A r, s \in table' : r.note_id = s.note_id => r = s
     /\ \A note_id \in deleted : ~Found(table', note_id)]_vars

\* C9: replace on a missing id.  A PUT /notes/<note_id> that runs, whole or
\* resumed, while its id matches no stored note stores no note and leaves
\* every stored note as it is, and is answered with status 404 and
\* {"message": "error"}: at once, or by the stretch that builds its response.
ReplaceMissing ==
  [][(request'.method = "PUT" /\ ~Found(table, request'.note_id))
       => /\ table' = table
          /\ \/ response' = Response(404, "message", "error")
             \/ /\ response' = Pending
                /\ \E w \in BagToSet(inflight') :
                     w.op = "PUT_RETURN" /\ w.note_id = request'.note_id]_vars

\* A PUT of a deleted id was answered 404 while another note is stored.
ReplaceMissingWitness ==
  /\ request.method = "PUT"
  /\ request.note_id \in deleted
  /\ response = Response(404, "message", "error")
  /\ table # {}

\* C10: frame of replace.  A stretch of PUT /notes/<note_id> leaves the
\* number of stored notes and every note with another id as they are, and
\* the note with its id keeps its note_id and its data timestamp.
ReplaceFrame ==
  [][request'.method = "PUT"
       => /\ Cardinality(table') = Cardinality(table)
          /\ {r \in table' : r.note_id # request'.note_id} =
               {r \in table : r.note_id # request'.note_id}
          /\ Found(table', request'.note_id) <=> Found(table, request'.note_id)
          /\ Found(table, request'.note_id)
               => QueryGet(table', request'.note_id).data =
                    QueryGet(table, request'.note_id).data]_vars

\* A PUT was answered 204 with the title and the text it set, while another
\* note is stored.
ReplaceFrameWitness ==
  /\ request.method = "PUT"
  /\ response.status = 204
  /\ response.body.value.note_id = request.note_id
  /\ response.body.value.title = "T"
  /\ response.body.value.text = "Y"
  /\ Cardinality(table) = 2

====
